---- MODULE Spec2Model ----
(***************************************************************************)
(* A model of the rich-text operation type (lib-ot Operation), of the      *)
(* AutoExitBlock insert extension and of the persisted revision row        *)
(* (RevTable) of the document store.                                       *)
(*                                                                         *)
(* Three state machines share the module:                                  *)
(*   SpecOp   - one Operation value and the calls made on it               *)
(*   SpecExit - one call of AutoExitBlock::apply on a document delta       *)
(*   SpecRev  - one persisted row, read back and converted to a Revision   *)
(***************************************************************************)
EXTENDS Integers, Sequences, FiniteSets, TLC

VARIABLES
    op,           \* SpecOp: the Operation the calls are made on
    prev,         \* SpecOp: the Operation before the last call
    call,         \* SpecOp: the last call and its arguments
    ret,          \* SpecOp: what the last call returned
    delta,        \* SpecExit: the document delta (a sequence of Insert ops)
    text,         \* SpecExit: the typed text
    index,        \* SpecExit: the code-unit insertion index
    replace_len,  \* SpecExit: the length of the replaced selection
    result,       \* SpecExit: what apply returned
    pc,           \* SpecExit: "call" before apply, "done" after
    stored,       \* SpecRev: the persisted row, enums as i32 codes
    table,        \* SpecRev: the RevTable read from the store
    revision      \* SpecRev: the Revision converted from the table

opVars   == <<op, prev, call, ret>>
exitVars == <<delta, text, index, replace_len, result, pc>>
revVars  == <<stored, table, revision>>
vars     == <<op, prev, call, ret, delta, text, index, replace_len, result, pc,
              stored, table, revision>>

----------------------------------------------------------------------------
(* Bounds of the model. *)

MaxN == 3          \* largest Retain / Delete length drawn
MaxLen == 3        \* longest Insert text (in scalars) drawn or built
MaxPos == 5        \* largest interval endpoint drawn
MaxOps == 3        \* most ops in a document delta
MaxReplace == 1    \* largest replace_len drawn
MaxData == 2       \* longest delta_data (in bytes) of a row
MaxRevId == 1      \* largest revision id of a row

----------------------------------------------------------------------------
(* Strings.  A string is a sequence of Unicode scalars; a scalar has a     *)
(* UTF-8 width (bytes) and a UTF-16 width (code units).                    *)

Newline == "\n"

Scalars == {"a", "U+00E9", "U+1F600"}

Utf8Width(c)  == CASE c = "U+00E9" -> 2 [] c = "U+1F600" -> 4 [] OTHER -> 1

Utf16Width(c) == IF c = "U+1F600" THEN 2 ELSE 1

RECURSIVE ByteLen(_)
ByteLen(s) == IF s = <<>> THEN 0 ELSE Utf8Width(Head(s)) + ByteLen(Tail(s))

RECURSIVE count_utf16_code_units(_)
count_utf16_code_units(s) ==
    IF s = <<>> THEN 0 ELSE Utf16Width(Head(s)) + count_utf16_code_units(Tail(s))

\* byte offset / code-unit offset at which scalar i of s starts (i in 1..Len(s)+1)
ByteOffset(s, i) == ByteLen(SubSeq(s, 1, i - 1))
UnitOffset(s, i) == count_utf16_code_units(SubSeq(s, 1, i - 1))

is_char_boundary(s, b) == \E i \in 1..(Len(s) + 1) : ByteOffset(s, i) = b

RECURSIVE SelectIdx(_, _, _)
SelectIdx(s, keep, i) ==
    IF i > Len(s) THEN <<>>
    ELSE (IF i \in keep THEN <<s[i]>> ELSE <<>>) \o SelectIdx(s, keep, i + 1)

\* &s[a..b] of a Rust string: a slice by BYTE offsets, which panics unless
\* a <= b <= byte length and both lie on scalar boundaries.
str_slice(s, a, b) ==
    IF a <= b /\ b <= ByteLen(s) /\ is_char_boundary(s, a) /\ is_char_boundary(s, b)
    THEN [panicked |-> FALSE,
          s |-> SelectIdx(s, {i \in 1..Len(s) : a <= ByteOffset(s, i) /\ ByteOffset(s, i) < b}, 1)]
    ELSE [panicked |-> TRUE, s |-> <<>>]

Min(a, b) == IF a < b THEN a ELSE b

\* FlowyStr::sub_str: the code-unit slice [start, end), clamped to the string,
\* found by walking the scalars and summing their UTF-16 widths.
sub_str(s, start, end) ==
    LET e == Min(end, count_utf16_code_units(s))
    IN SelectIdx(s, {i \in 1..Len(s) :
                        start <= UnitOffset(s, i) /\ UnitOffset(s, i + 1) <= e}, 1)

Interval_size(start, end) == IF end > start THEN end - start ELSE 0

----------------------------------------------------------------------------
(* Attributes: a map from key to value, kept as a set of <<key, value>>    *)
(* pairs with one pair per key; the value "null" marks a removal.          *)

EmptyAttributes == {}

Attributes_is_empty(a) == a = {}

----------------------------------------------------------------------------
(* Operation *)

None == [kind |-> "None", n |-> 0, s |-> <<>>, attributes |-> {}]

OpDelete(n)    == [kind |-> "Delete", n |-> n, s |-> <<>>, attributes |-> {}]
OpRetain(n, a) == [kind |-> "Retain", n |-> n, s |-> <<>>, attributes |-> a]
OpInsert(s, a) == [kind |-> "Insert", n |-> 0, s |-> s, attributes |-> a]

get_attributes(o) == IF o.kind = "Delete" THEN EmptyAttributes ELSE o.attributes

\* variant: the Delete arm stores the attributes too
set_attributes_onDelete(o, a) == [o EXCEPT !.attributes = a]

set_attributes(o, a) ==
    IF o.kind = "Delete" THEN o ELSE [o EXCEPT !.attributes = a]

Insert_count_of_code_units(o) == count_utf16_code_units(o.s)

len(o) ==
    CASE o.kind = "Delete" -> o.n
      [] o.kind = "Retain" -> o.n
      [] o.kind = "Insert" -> Insert_count_of_code_units(o)
      [] OTHER -> 0

is_empty(o) == len(o) = 0

is_plain(o) ==
    CASE o.kind = "Delete" -> TRUE
      [] OTHER -> Attributes_is_empty(o.attributes)

Panic == [panicked |-> TRUE, fst |-> None, snd |-> None]
Returned(a, b) == [panicked |-> FALSE, fst |-> a, snd |-> b]

split(o, i) ==
    CASE o.kind = "Delete" -> Returned(OpDelete(i), OpDelete(o.n - i))
      [] o.kind = "Retain" -> Returned(OpDelete(i), OpDelete(o.n - i))
      [] o.kind = "Insert" ->
            LET attributes == get_attributes(o)
                l == str_slice(o.s, 0, i)
                r == str_slice(o.s, i, Insert_count_of_code_units(o))
            IN IF l.panicked \/ r.panicked THEN Panic
               ELSE Returned(OpInsert(l.s, attributes), OpInsert(r.s, attributes))

shrink(o, start, end) ==
    LET size == Interval_size(start, end)
        built ==
          CASE o.kind = "Delete" -> OpDelete(Min(o.n, size))
            [] o.kind = "Retain" -> OpRetain(Min(o.n, size), o.attributes)
            [] o.kind = "Insert" ->
                  IF start > Insert_count_of_code_units(o)
                  THEN OpInsert(<<>>, EmptyAttributes)
                  ELSE OpInsert(sub_str(o.s, start, end), o.attributes)
    IN IF is_empty(built) THEN None ELSE built

\* variant: merges whatever the attributes are
Retain_merge_or_new_always(r, n, a) ==
    [self |-> [r EXCEPT !.n = r.n + n], new |-> None]

\* the receiver after the call and the op returned
Retain_merge_or_new(r, n, a) ==
    IF r.attributes = a
    THEN [self |-> [r EXCEPT !.n = r.n + n], new |-> None]
    ELSE [self |-> r, new |-> OpRetain(n, a)]

Insert_merge_or_new_op(ins, s, a) ==
    IF ins.attributes = a
    THEN [self |-> [ins EXCEPT !.s = ins.s \o s], new |-> None]
    ELSE [self |-> ins, new |-> OpInsert(s, a)]

----------------------------------------------------------------------------
(* SpecOp: an Operation value and the calls made on it.  After a call, op  *)
(* is the value the caller goes on with: the receiver for the mutating     *)
(* calls, one of the returned ops for split and shrink.                    *)

OpAttrs == { {}, {<<"bold", "true">>}, {<<"bold", "true">>, <<"italic", "true">>} }

Texts(k) == UNION { [1..m -> Scalars] : m \in 0..k }

AllOps ==
    { OpDelete(n) : n \in 0..MaxN }
    \cup { OpRetain(n, a) : n \in 0..MaxN, a \in OpAttrs }
    \cup { OpInsert(s, a) : s \in Texts(MaxLen), a \in OpAttrs }

NoCall == [name |-> "none", index |-> 0, start |-> 0, end |-> 0,
           attributes |-> {}, n |-> 0, s |-> <<>>]

SetAttributes(a) ==
    /\ op' = set_attributes(op, a)
    /\ prev' = op
    /\ call' = [NoCall EXCEPT !.name = "set_attributes", !.attributes = a]
    /\ ret' = Returned(None, None)
    /\ UNCHANGED <<exitVars, revVars>>

Split(i, takeLeft) ==
    /\ i < len(op)                     \* debug_assert!(index < self.len())
    /\ LET r == split(op, i)
       IN /\ ret' = r
          /\ op' = IF r.panicked THEN op ELSE IF takeLeft THEN r.fst ELSE r.snd
    /\ prev' = op
    /\ call' = [NoCall EXCEPT !.name = "split", !.index = i]
    /\ UNCHANGED <<exitVars, revVars>>

Shrink(start, end) ==
    /\ start <= end
    /\ LET r == shrink(op, start, end)
       IN /\ ret' = Returned(r, None)
          /\ op' = IF r = None THEN op ELSE r
    /\ prev' = op
    /\ call' = [NoCall EXCEPT !.name = "shrink", !.start = start, !.end = end]
    /\ UNCHANGED <<exitVars, revVars>>

RetainMergeOrNew(n, a) ==
    /\ op.kind = "Retain"
    /\ op.n + n <= MaxN
    /\ LET r == Retain_merge_or_new(op, n, a)
       IN /\ op' = r.self
          /\ ret' = Returned(r.new, None)
    /\ prev' = op
    /\ call' = [NoCall EXCEPT !.name = "Retain::merge_or_new", !.n = n, !.attributes = a]
    /\ UNCHANGED <<exitVars, revVars>>

InsertMergeOrNewOp(s, a) ==
    /\ op.kind = "Insert"
    /\ Len(op.s) + Len(s) <= MaxLen
    /\ LET r == Insert_merge_or_new_op(op, s, a)
       IN /\ op' = r.self
          /\ ret' = Returned(r.new, None)
    /\ prev' = op
    /\ call' = [NoCall EXCEPT !.name = "Insert::merge_or_new_op", !.s = s, !.attributes = a]
    /\ UNCHANGED <<exitVars, revVars>>

----------------------------------------------------------------------------
(* Document deltas and the cursor over them (DeltaIter), the attribute     *)
(* helpers and the builder that AutoExitBlock::apply calls.                *)

RECURSIVE Delta_len(_)
Delta_len(d) == IF d = <<>> THEN 0 ELSE len(Head(d)) + Delta_len(Tail(d))

\* code-unit offset at which op k of d starts (k in 1..Len(d)+1)
OpStart(d, k) == Delta_len(SubSeq(d, 1, k - 1))

is_newline(t) == t = <<Newline>>

\* one cell per code unit of the document: the scalar it belongs to, the
\* attributes of its op and the number of the op
RECURSIVE TextCells(_, _, _)
TextCells(s, a, k) ==
    IF s = <<>> THEN <<>>
    ELSE [u \in 1..Utf16Width(Head(s)) |-> [ch |-> Head(s), attributes |-> a, opno |-> k]]
         \o TextCells(Tail(s), a, k)

RECURSIVE DocCellsFrom(_, _)
DocCellsFrom(d, k) ==
    IF k > Len(d) THEN <<>>
    ELSE TextCells(d[k].s, d[k].attributes, k) \o DocCellsFrom(d, k + 1)

DocCells(d) == DocCellsFrom(d, 1)

\* the line at i is empty: nothing but the previous newline (or the start of
\* the document) lies before i
is_empty_line_at_index(d, i) ==
    \/ i = 0
    \/ /\ i <= Len(DocCells(d))
       /\ DocCells(d)[i].ch = Newline

\* the cursor is a code-unit offset into the delta
DeltaIter_from_offset(d, i) == i

\* the rest of the op under the cursor, and the cursor moved past that op
DeltaIter_next_op(d, cur) ==
    IF cur >= Delta_len(d) THEN [op |-> None, cur |-> cur]
    ELSE LET k == CHOOSE j \in 1..Len(d) : OpStart(d, j) <= cur /\ cur < OpStart(d, j + 1)
         IN [op |-> shrink(d[k], cur - OpStart(d, k), len(d[k])),
             cur |-> OpStart(d, k + 1)]

contains_newline(o) == \E j \in 1..Len(o.s) : o.s[j] = Newline

\* the next op segment up to and including the next newline, None if no op
\* from the cursor on holds a newline
RECURSIVE DeltaIter_next_op_with_newline(_, _)
DeltaIter_next_op_with_newline(d, cur) ==
    LET step == DeltaIter_next_op(d, cur)
    IN IF step.op = None THEN None
       ELSE IF contains_newline(step.op)
            THEN LET j == CHOOSE j \in 1..Len(step.op.s) :
                              /\ step.op.s[j] = Newline
                              /\ \A m \in 1..(j - 1) : step.op.s[m] # Newline
                 IN OpInsert(SubSeq(step.op.s, 1, j), step.op.attributes)
            ELSE DeltaIter_next_op_with_newline(d, step.cur)

attributes_except_header(o) == { kv \in get_attributes(o) : kv[1] # "header" }

mark_all_as_removed_except(a, key) ==
    { IF kv[1] = key THEN kv ELSE <<kv[1], "null">> : kv \in a }

\* DeltaBuilder::retain / retain_with_attributes: an empty op adds nothing, a
\* Retain after a Retain with equal attributes is merged into it
DeltaBuilder_retain(ops, n, a) ==
    IF n = 0 THEN ops
    ELSE IF ops # <<>> /\ ops[Len(ops)].kind = "Retain"
         THEN LET m == Retain_merge_or_new(ops[Len(ops)], n, a)
              IN IF m.new = None
                 THEN [ops EXCEPT ![Len(ops)] = m.self]
                 ELSE Append(ops, m.new)
         ELSE Append(ops, OpRetain(n, a))

\* DeltaBuilder::build: a trailing plain Retain is dropped
DeltaBuilder_build(ops) ==
    IF ops # <<>> /\ ops[Len(ops)].kind = "Retain" /\ is_plain(ops[Len(ops)])
    THEN SubSeq(ops, 1, Len(ops) - 1)
    ELSE ops

NoDelta == [some |-> FALSE, ops |-> <<>>]
SomeDelta(ops) == [some |-> TRUE, ops |-> ops]

\* lines 42-49: the rewrite, once every check has passed
AutoExitBlock_rewrite(rl, i, attributes) ==
    SomeDelta(DeltaBuilder_build(
        DeltaBuilder_retain(
            DeltaBuilder_retain(<<>>, i + rl, EmptyAttributes),
            1, mark_all_as_removed_except(attributes, "header"))))

\* variant: the length of the examined op is not checked
AutoExitBlock_apply_anyLen(d, rl, t, i) ==
    IF ~is_newline(t) THEN NoDelta
    ELSE IF ~is_empty_line_at_index(d, i) THEN NoDelta
    ELSE
      LET step == DeltaIter_next_op(d, DeltaIter_from_offset(d, i))
          next == step.op
      IN IF next = None THEN NoDelta
         ELSE
           LET block_attributes == attributes_except_header(next)
               newline_op == DeltaIter_next_op_with_newline(d, step.cur)
           IN IF Attributes_is_empty(block_attributes) THEN NoDelta
              ELSE IF /\ newline_op # None
                      /\ block_attributes = attributes_except_header(newline_op)
                   THEN NoDelta
              ELSE AutoExitBlock_rewrite(rl, i, get_attributes(next))

\* variant: the first retain forgets the replaced selection
AutoExitBlock_apply_noReplaceLen(d, rl, t, i) ==
    IF ~is_newline(t) THEN NoDelta
    ELSE IF ~is_empty_line_at_index(d, i) THEN NoDelta
    ELSE
      LET step == DeltaIter_next_op(d, DeltaIter_from_offset(d, i))
          next == step.op
      IN IF next = None THEN NoDelta
         ELSE
           LET block_attributes == attributes_except_header(next)
               newline_op == DeltaIter_next_op_with_newline(d, step.cur)
           IN IF Attributes_is_empty(block_attributes) THEN NoDelta
              ELSE IF len(next) > 1 THEN NoDelta
              ELSE IF /\ newline_op # None
                      /\ block_attributes = attributes_except_header(newline_op)
                   THEN NoDelta
              ELSE AutoExitBlock_rewrite(0, i, get_attributes(next))

\* variant: an op carrying nothing but a Header is not turned away
AutoExitBlock_apply_noBlockCheck(d, rl, t, i) ==
    IF ~is_newline(t) THEN NoDelta
    ELSE IF ~is_empty_line_at_index(d, i) THEN NoDelta
    ELSE
      LET step == DeltaIter_next_op(d, DeltaIter_from_offset(d, i))
          next == step.op
      IN IF next = None THEN NoDelta
         ELSE
           LET block_attributes == attributes_except_header(next)
               newline_op == DeltaIter_next_op_with_newline(d, step.cur)
           IN IF len(next) > 1 THEN NoDelta
              ELSE IF /\ newline_op # None
                      /\ block_attributes = attributes_except_header(newline_op)
                   THEN NoDelta
              ELSE AutoExitBlock_rewrite(rl, i, get_attributes(next))

AutoExitBlock_apply(d, rl, t, i) ==
    IF ~is_newline(t) THEN NoDelta
    ELSE IF ~is_empty_line_at_index(d, i) THEN NoDelta
    ELSE
      LET iter == DeltaIter_from_offset(d, i)
          step == DeltaIter_next_op(d, iter)
          next == step.op
      IN IF next = None THEN NoDelta
         ELSE
           LET attributes == get_attributes(next)
               block_attributes == attributes_except_header(next)
               newline_op == DeltaIter_next_op_with_newline(d, step.cur)
           IN IF Attributes_is_empty(block_attributes) THEN NoDelta
              ELSE IF len(next) > 1 THEN NoDelta
              ELSE IF /\ newline_op # None
                      /\ block_attributes = attributes_except_header(newline_op)
                   THEN NoDelta
              ELSE AutoExitBlock_rewrite(rl, i, attributes)

----------------------------------------------------------------------------
(* SpecExit: one keystroke offered to AutoExitBlock.                       *)

DocAttrs == { {}, {<<"header", "1">>}, {<<"list", "bullet">>},
              {<<"header", "1">>, <<"list", "bullet">>} }

DocTexts == { <<Newline>>, <<"a">>, <<"a", Newline>>, <<Newline, Newline>> }

DocOps == { OpInsert(s, a) : s \in DocTexts, a \in DocAttrs }

\* a document is built by the builder: adjacent Inserts differ in attributes
Docs ==
    { d \in UNION { [1..m -> DocOps] : m \in 1..MaxOps } :
        \A k \in 1..(Len(d) - 1) : d[k].attributes # d[k + 1].attributes }

ScenarioA_delta ==
    << OpInsert(<<"#", " ", "H", Newline>>, {}),
       OpInsert(<<Newline>>, {<<"header", "1">>}) >>

TypedTexts == { <<Newline>>, <<"a">>, <<Newline, Newline>> }

Apply ==
    /\ pc = "call"
    /\ result' = AutoExitBlock_apply(delta, replace_len, text, index)
    /\ pc' = "done"
    /\ UNCHANGED <<delta, text, index, replace_len>>
    /\ UNCHANGED <<opVars, revVars>>

----------------------------------------------------------------------------
(* The persisted revision row.                                             *)

I32Max == 2147483647
I32Samples == { -I32Max - 1, -1, 0, 1, 2, I32Max }

RevStates == { "RevState::Local", "RevState::Acked" }
RevTableTypes == { "RevTableType::Local", "RevTableType::Remote" }

\* variant: an unknown code falls back to Acked
RevState_from_fallbackAcked(value) ==
    CASE value = 0 -> "RevState::Local"
      [] value = 1 -> "RevState::Acked"
      [] OTHER -> "RevState::Acked"

RevState_from(value) ==
    CASE value = 0 -> "RevState::Local"
      [] value = 1 -> "RevState::Acked"
      [] OTHER -> "RevState::Local"

RevState_value(s) == IF s = "RevState::Local" THEN 0 ELSE 1

RevTableType_from(value) ==
    CASE value = 0 -> "RevTableType::Local"
      [] value = 1 -> "RevTableType::Remote"
      [] OTHER -> "RevTableType::Local"

RevTableType_value(ty) == IF ty = "RevTableType::Local" THEN 0 ELSE 1

RevType_from(ty) ==
    CASE ty = "RevTableType::Local" -> "RevType::Local"
      [] ty = "RevTableType::Remote" -> "RevType::Remote"

RevTableType_from_RevType(ty) ==
    CASE ty = "RevType::Local" -> "RevTableType::Local"
      [] ty = "RevType::Remote" -> "RevTableType::Remote"

\* util::md5: a digest of the bytes (a small polynomial hash stands for MD5)
RECURSIVE md5(_)
md5(data) ==
    IF data = <<>> THEN 7
    ELSE (md5(SubSeq(data, 1, Len(data) - 1)) * 31 + data[Len(data)] + 1) % 251

NoTable == [some |-> FALSE, id |-> 0, doc_id |-> "", base_rev_id |-> 0, rev_id |-> 0,
            data |-> <<>>, state |-> "RevState::Local", ty |-> "RevTableType::Local"]

NoRevision == [some |-> FALSE, base_rev_id |-> 0, rev_id |-> 0, delta_data |-> <<>>,
               md5 |-> 0, doc_id |-> "", ty |-> "RevType::Local"]

\* variant: an acknowledged row is taken for a remote revision
Revision_from_tyFromState(t) ==
    [some |-> TRUE,
     base_rev_id |-> t.base_rev_id,
     rev_id |-> t.rev_id,
     delta_data |-> t.data,
     md5 |-> md5(t.data),
     doc_id |-> t.doc_id,
     ty |-> IF t.state = "RevState::Acked" THEN "RevType::Remote" ELSE RevType_from(t.ty)]

Revision_from(t) ==
    [some |-> TRUE,
     base_rev_id |-> t.base_rev_id,
     rev_id |-> t.rev_id,
     delta_data |-> t.data,
     md5 |-> md5(t.data),
     doc_id |-> t.doc_id,
     ty |-> RevType_from(t.ty)]

----------------------------------------------------------------------------
(* SpecRev: a row of rev_table is read into a RevTable, converted to a     *)
(* Revision, and written back.                                             *)

Bytes == {0, 1}

DocIds == {"doc1", "doc2"}

Datas == UNION { [1..m -> Bytes] : m \in 0..MaxData }

\* Queryable: the integer columns go through From<i32>
ReadRow ==
    /\ table' = [some |-> TRUE, id |-> stored.id, doc_id |-> stored.doc_id,
                 base_rev_id |-> stored.base_rev_id, rev_id |-> stored.rev_id,
                 data |-> stored.data,
                 state |-> RevState_from(stored.state),
                 ty |-> RevTableType_from(stored.ty)]
    /\ UNCHANGED <<stored, revision>>
    /\ UNCHANGED <<opVars, exitVars>>

IntoRevision ==
    /\ table.some
    /\ revision' = Revision_from(table)
    /\ UNCHANGED <<stored, table>>
    /\ UNCHANGED <<opVars, exitVars>>

\* Insertable: the enums are written as their value()
WriteRow ==
    /\ table.some
    /\ stored' = [id |-> table.id, doc_id |-> table.doc_id,
                  base_rev_id |-> table.base_rev_id, rev_id |-> table.rev_id,
                  data |-> table.data,
                  state |-> RevState_value(table.state),
                  ty |-> RevTableType_value(table.ty)]
    /\ UNCHANGED <<table, revision>>
    /\ UNCHANGED <<opVars, exitVars>>

----------------------------------------------------------------------------
(* The specifications.  Each machine starts with the variables of the     *)
(* other two at rest and never touches them.                               *)

NoStored == [id |-> 0, doc_id |-> "", base_rev_id |-> 0, rev_id |-> 0,
             data |-> <<>>, state |-> 0, ty |-> 0]

OpInit ==
    /\ op \in AllOps
    /\ prev = op
    /\ call = NoCall
    /\ ret = Returned(None, None)
    /\ delta = <<>> /\ text = <<>> /\ index = 0 /\ replace_len = 0
    /\ result = NoDelta /\ pc = "idle"
    /\ stored = NoStored /\ table = NoTable /\ revision = NoRevision

OpNext ==
    \/ \E a \in OpAttrs : SetAttributes(a)
    \/ \E i \in 0..MaxPos, takeLeft \in BOOLEAN : Split(i, takeLeft)
    \/ \E start \in 0..MaxPos, end \in 0..MaxPos : Shrink(start, end)
    \/ \E n \in 0..MaxN, a \in OpAttrs : RetainMergeOrNew(n, a)
    \/ \E s \in Texts(MaxLen), a \in OpAttrs : InsertMergeOrNewOp(s, a)

SpecOp == OpInit /\ [][OpNext]_vars

ExitInit ==
    /\ delta \in Docs \cup {ScenarioA_delta}
    /\ text \in TypedTexts
    /\ index \in 0..Delta_len(delta)
    /\ replace_len \in 0..MaxReplace
    /\ result = NoDelta
    /\ pc = "call"
    /\ op = None /\ prev = None /\ call = NoCall /\ ret = Returned(None, None)
    /\ stored = NoStored /\ table = NoTable /\ revision = NoRevision

ExitNext == Apply

SpecExit == ExitInit /\ [][ExitNext]_vars

RevInit ==
    /\ stored \in [id : {1}, doc_id : DocIds, base_rev_id : 0..MaxRevId,
                   rev_id : 0..MaxRevId, data : Datas,
                   state : I32Samples, ty : I32Samples]
    /\ table = NoTable
    /\ revision = NoRevision
    /\ op = None /\ prev = None /\ call = NoCall /\ ret = Returned(None, None)
    /\ delta = <<>> /\ text = <<>> /\ index = 0 /\ replace_len = 0
    /\ result = NoDelta /\ pc = "idle"

RevNext == ReadRow \/ IntoRevision \/ WriteRow

SpecRev == RevInit /\ [][RevNext]_vars

----------------------------------------------------------------------------
(* Properties of Operation, checked under SpecOp.                          *)

\* the two halves of a split put back together
Concat(a, b) ==
    [kind |-> a.kind, n |-> a.n + b.n, s |-> a.s \o b.s, attributes |-> a.attributes]

\* the UTF-16 code units of a string, each named by its scalar and its place in it
RECURSIVE CodeUnits(_)
CodeUnits(s) ==
    IF s = <<>> THEN <<>>
    ELSE [u \in 1..Utf16Width(Head(s)) |-> <<Head(s), u>>] \o CodeUnits(Tail(s))

\* u is a code-unit offset of s that falls between two scalars
is_unit_boundary(s, u) == \E i \in 1..(Len(s) + 1) : UnitOffset(s, i) = u

\* C1: for every op and every index with 0 < index < op.len(), split(index)
\* returns two ops of op's variant, of lengths index and len - index, whose
\* concatenation (same attributes, lengths added / texts appended) is op.
C1_SplitReassembles ==
    (call.name = "split" /\ 0 < call.index /\ call.index < len(prev)) =>
        /\ ~ret.panicked
        /\ ret.fst.kind = prev.kind
        /\ ret.snd.kind = prev.kind
        /\ len(ret.fst) = call.index
        /\ len(ret.snd) = len(prev) - call.index
        /\ get_attributes(ret.fst) = get_attributes(prev)
        /\ get_attributes(ret.snd) = get_attributes(prev)
        /\ Concat(ret.fst, ret.snd) = prev

\* the size of [start, end) intersected with [0, len)
ClipSize(o, start, end) ==
    IF Min(end, len(o)) > start THEN Min(end, len(o)) - start ELSE 0

\* C2: for every op and every interval [start, end), shrink returns the op
\* clipped to the interval: same variant and attributes, length the size of
\* [start, end) /\ [0, len) (for Insert exactly the code units at those
\* offsets), and None exactly when that intersection is empty.
C2_ShrinkClips ==
    call.name = "shrink" =>
        IF ClipSize(prev, call.start, call.end) = 0
        THEN ret.fst = None
        ELSE /\ ret.fst.kind = prev.kind
             /\ get_attributes(ret.fst) = get_attributes(prev)
             /\ len(ret.fst) = ClipSize(prev, call.start, call.end)
             /\ prev.kind = "Insert" =>
                  CodeUnits(ret.fst.s) =
                    SubSeq(CodeUnits(prev.s), call.start + 1, Min(call.end, len(prev)))

has_non_bmp(s) == \E j \in 1..Len(s) : Utf16Width(s[j]) = 2

\* C3: on an Insert whose text holds a non-BMP scalar, split and shrink cut
\* at UTF-16 code-unit offsets: for offsets between scalars the left part has
\* exactly index code units, both halves keep the attributes, nothing fails
\* and the cut falls where the offset says.
C3_CutsByCodeUnit ==
    /\ ( /\ call.name = "split" /\ prev.kind = "Insert" /\ has_non_bmp(prev.s)
         /\ 0 < call.index /\ call.index < len(prev)
         /\ is_unit_boundary(prev.s, call.index) ) =>
           /\ ~ret.panicked
           /\ len(ret.fst) = call.index
           /\ ret.fst.attributes = prev.attributes
           /\ ret.snd.attributes = prev.attributes
           /\ ret.fst.s \o ret.snd.s = prev.s
    /\ ( /\ call.name = "shrink" /\ prev.kind = "Insert" /\ has_non_bmp(prev.s)
         /\ call.start < Min(call.end, len(prev))
         /\ is_unit_boundary(prev.s, call.start)
         /\ is_unit_boundary(prev.s, Min(call.end, len(prev))) ) =>
           /\ ret.fst.kind = "Insert"
           /\ ret.fst.attributes = prev.attributes
           /\ CodeUnits(ret.fst.s) =
                SubSeq(CodeUnits(prev.s), call.start + 1, Min(call.end, len(prev)))

\* C7: a Delete never carries attributes: every Delete op held or returned has
\* empty attributes and is plain; set_attributes on a Delete leaves the op as it
\* was, and on a Retain or an Insert replaces the attributes and nothing else.
C7_DeleteNeverCarriesAttributes ==
    /\ \A o \in {op, prev, ret.fst, ret.snd} :
          o.kind = "Delete" =>
             /\ o.attributes = {}
             /\ Attributes_is_empty(get_attributes(o))
             /\ is_plain(o)
    /\ call.name = "set_attributes" =>
          /\ ~ret.panicked
          /\ IF prev.kind = "Delete"
             THEN op = prev
             ELSE /\ op.kind = prev.kind /\ op.n = prev.n /\ op.s = prev.s
                  /\ get_attributes(op) = call.attributes

C7_Witness ==
    /\ call.name = "set_attributes"
    /\ prev.kind = "Delete"
    /\ prev.n > 0
    /\ call.attributes # {}
    /\ op = prev

\* C10: merging happens iff the attributes are equal and keeps the total
\* length: on equal attributes the receiver grows by the new content and None
\* is returned, otherwise the receiver is unchanged and a new op holding the
\* content is returned.
C10_MergeIffEqualAttributes ==
    /\ call.name = "Retain::merge_or_new" =>
          /\ IF call.attributes = prev.attributes
             THEN ret.fst = None /\ op = OpRetain(prev.n + call.n, prev.attributes)
             ELSE op = prev /\ ret.fst = OpRetain(call.n, call.attributes)
          /\ len(op) + len(ret.fst) = len(prev) + call.n
    /\ call.name = "Insert::merge_or_new_op" =>
          /\ IF call.attributes = prev.attributes
             THEN ret.fst = None /\ op = OpInsert(prev.s \o call.s, prev.attributes)
             ELSE op = prev /\ ret.fst = OpInsert(call.s, call.attributes)
          /\ len(op) + len(ret.fst) = len(prev) + count_utf16_code_units(call.s)

C10_Witness ==
    /\ call.name = "Retain::merge_or_new"
    /\ call.attributes = prev.attributes
    /\ call.attributes # {}
    /\ call.n > 0 /\ prev.n > 0
    /\ ret.fst = None
    /\ op.n = prev.n + call.n

C1_Counterexample_Witness ==
    /\ call.name = "split" /\ prev.kind = "Retain"
    /\ 0 < call.index /\ call.index < len(prev)
    /\ ret.fst.kind = "Delete"

----------------------------------------------------------------------------
(* Properties of AutoExitBlock::apply, checked under SpecExit.             *)

except_header(a) == { kv \in a : kv[1] # "header" }

\* the conditions under which the extension rewrites, read off the document
\* one code unit at a time
ExitConditions ==
    LET cells == DocCells(delta)
    IN /\ text = <<Newline>>
       /\ is_empty_line_at_index(delta, index)
       /\ index < Len(cells)
       /\ LET c == cells[index + 1]
              rest == { j \in (index + 1)..Len(cells) : cells[j].opno = c.opno }
              later == { j \in (index + 2)..Len(cells) :
                            cells[j].opno # c.opno /\ cells[j].ch = Newline }
          IN /\ except_header(c.attributes) # {}
             /\ Cardinality(rest) <= 1
             /\ later # {} =>
                  LET j == CHOOSE m \in later : \A m2 \in later : m <= m2
                  IN except_header(cells[j].attributes) # except_header(c.attributes)

\* C4: apply returns a rewrite exactly when the text is a single newline, the
\* line at index is empty, there is an op at index whose attributes minus
\* Header are non-empty, that op has length at most 1, and the next op segment
\* up to the following newline (if any) has other non-header attributes.
C4_RewritesExactlyWhen ==
    pc = "done" => (result.some <=> ExitConditions)

C4_Witness ==
    /\ pc = "done" /\ result.some
    /\ Len(delta) = 3 /\ index > 0
    /\ \E j \in (index + 2)..Len(DocCells(delta)) : DocCells(delta)[j].ch = Newline

\* a decline caused by nothing but the attributes of the following newline
C4_DeclineByNewline_Witness ==
    /\ pc = "done" /\ ~result.some
    /\ text = <<Newline>> /\ is_empty_line_at_index(delta, index)
    /\ index < Len(DocCells(delta))
    /\ LET c == DocCells(delta)[index + 1]
       IN /\ except_header(c.attributes) # {}
          /\ Cardinality({ j \in (index + 1)..Len(DocCells(delta)) :
                              DocCells(delta)[j].opno = c.opno }) = 1

nonempty_op(o) == ~is_empty(o)

\* C5: a returned delta is retain(index + replace_len) followed by
\* retain(1, attrs'), attrs' having the keys of the examined op's attributes,
\* Header keeping its value and every other key mapped to null; it holds no
\* Insert and no Delete.  (A retain of length 0 is the empty op.)
C5_RewriteShape ==
    (pc = "done" /\ result.some) =>
        LET a == DocCells(delta)[index + 1].attributes
            removed == { <<kv[1], IF kv[1] = "header" THEN kv[2] ELSE "null">> : kv \in a }
        IN /\ result.ops = SelectSeq(<< OpRetain(index + replace_len, {}),
                                        OpRetain(1, removed) >>, nonempty_op)
           /\ \A k \in 1..Len(result.ops) : result.ops[k].kind = "Retain"

C5_Witness ==
    /\ pc = "done" /\ result.some
    /\ index > 0 /\ replace_len > 0
    /\ Len(result.ops) = 2
    /\ <<"header", "1">> \in result.ops[2].attributes
    /\ <<"list", "null">> \in result.ops[2].attributes

ScenarioA ==
    /\ pc = "done"
    /\ delta = ScenarioA_delta
    /\ text = <<Newline>>
    /\ index = 4
    /\ replace_len = 0

\* C6 as stated: in Scenario A the extension triggers and produces
\* [retain 4, retain 1 {bold: null, italic: null, list: null, header: 1}].
C6_ScenarioA_Triggers ==
    ScenarioA =>
        result = SomeDelta(<< OpRetain(4, {}),
                              OpRetain(1, { <<"bold", "null">>, <<"italic", "null">>,
                                            <<"list", "null">>, <<"header", "1">> }) >>)

\* C6 amended: in Scenario A the op at index 4 carries only a Header
\* attribute, so the extension declines and returns None.
C6_ScenarioA_Declines ==
    ScenarioA => result = NoDelta

C6_Witness ==
    /\ ScenarioA
    /\ is_empty_line_at_index(delta, index)
    /\ DeltaIter_next_op(delta, index).op = OpInsert(<<Newline>>, {<<"header", "1">>})

----------------------------------------------------------------------------
(* Properties of the revision row, checked under SpecRev.                  *)

\* C8: reading an enum code never fails: 0 is Local, 1 is Acked / Remote and
\* every other 32-bit integer, negatives included, is Local; and
\* from(s.value()) = s for every enum value s.
C8_TolerantEnumRead ==
    /\ \A v \in I32Samples :
          /\ RevState_from(v) = (IF v = 1 THEN "RevState::Acked" ELSE "RevState::Local")
          /\ RevTableType_from(v) =
                (IF v = 1 THEN "RevTableType::Remote" ELSE "RevTableType::Local")
    /\ \A s \in RevStates : RevState_from(RevState_value(s)) = s
    /\ \A ty \in RevTableTypes : RevTableType_from(RevTableType_value(ty)) = ty
    /\ table.some =>
          /\ table.state = (IF stored.state = 1 THEN "RevState::Acked" ELSE "RevState::Local")
          /\ table.ty = (IF stored.ty = 1 THEN "RevTableType::Remote"
                         ELSE "RevTableType::Local")

C8_Witness ==
    /\ table.some
    /\ stored.state < 0
    /\ stored.ty > 1
    /\ table.state = "RevState::Local"
    /\ table.ty = "RevTableType::Local"

\* C9: a Revision made from a row has md5 = MD5(delta_data), the row's doc_id,
\* base_rev_id, rev_id and data unchanged, ty Local for Local and Remote for
\* Remote, and no field that depends on the row's state.
C9_RevisionFromRow ==
    revision.some =>
        /\ table.some
        /\ revision.md5 = md5(revision.delta_data)
        /\ revision.delta_data = table.data
        /\ revision.doc_id = table.doc_id
        /\ revision.base_rev_id = table.base_rev_id
        /\ revision.rev_id = table.rev_id
        /\ revision.ty = (IF table.ty = "RevTableType::Remote" THEN "RevType::Remote"
                          ELSE "RevType::Local")
        /\ \A st \in RevStates : Revision_from([table EXCEPT !.state = st]) = revision

C9_Witness ==
    /\ revision.some
    /\ table.state = "RevState::Acked"
    /\ table.ty = "RevTableType::Remote"
    /\ revision.delta_data # <<>>
    /\ revision.ty = "RevType::Remote"

====
